---- MODULE Spec2Model ----
(***************************************************************************)
(* A model of retrieve_google_dorks (src/update-dorks.py): the paginated,  *)
(* retry-driven collection of the GHDB catalog, its order-preserving       *)
(* deduplication and its exports, with the command-line wrapper's mapping  *)
(* of the outcome to an exit status.                                       *)
(*                                                                         *)
(* Strings are sequences of one-character strings, so that strip(),        *)
(* replace() and the filename slug are computed, not assumed.              *)
(***************************************************************************)
EXTENDS Integers, Sequences, FiniteSets, TLC

VARIABLES
    insecure,        \* parameter: --insecure
    retry_attempts,  \* parameter: --retries
    max_pages,       \* parameter: --max-pages (0 stands for None)
    outputs,         \* parameters: the export flags that are set
    pc,              \* the program's position
    start,           \* offset of the next page
    pages,           \* pages ingested
    total_dorks,     \* None, or the total the server reported
    extracted_dorks, \* the running list of dork strings
    category_dict,   \* insertion-ordered dict: cid -> name, rows
    attempt,         \* fetch_page: the loop variable
    last_err,        \* fetch_page: last_err
    wire,            \* what the latest fetch_page call did, while the loop runs
    offsets,         \* the offset of every fetch_page call of the run
    received,        \* the number of rows of every page response received
    ingested,        \* the rows the row loop has gone through, in its order
    pauses,          \* politeness pauses taken
    cat_i,           \* the category loop of the export: categories written
    files,           \* the output directory: file name -> lines
    error,           \* the exception that left retrieve_google_dorks
    result,          \* the value retrieve_google_dorks returned
    exit_status      \* the process's exit status

vars == <<insecure, retry_attempts, max_pages, outputs, pc, start, pages,
          total_dorks, extracted_dorks, category_dict, attempt, last_err,
          wire, offsets, received, ingested, pauses, cat_i, files, error,
          result, exit_status>>

params == <<insecure, retry_attempts, max_pages, outputs>>
catalog == <<start, pages, total_dorks, extracted_dorks, category_dict>>

-----------------------------------------------------------------------------
(* Bounds *)

MaxAttempts == 2
MaxPagesCap == 2
MaxTotal == 3
MaxRows == 2

\* Python's None for an Optional value: the empty sequence; <<v>> holds v.
None == <<>>
Some(v) == <<v>>

-----------------------------------------------------------------------------
(* Strings *)

SP == " "
TAB == "\t"
Whitespace == {SP, TAB, "\n"}

RECURSIVE LStrip(_)
LStrip(s) ==
    IF s # <<>> /\ Head(s) \in Whitespace THEN LStrip(Tail(s)) ELSE s

RECURSIVE RStrip(_)
RStrip(s) ==
    IF s # <<>> /\ s[Len(s)] \in Whitespace
    THEN RStrip(SubSeq(s, 1, Len(s) - 1))
    ELSE s

\* str.strip()
Strip(s) == RStrip(LStrip(s))

\* str.replace("\t", "")
RECURSIVE RemoveTabs(_)
RemoveTabs(s) ==
    IF s = <<>> THEN <<>>
    ELSE IF Head(s) = TAB THEN RemoveTabs(Tail(s))
    ELSE <<Head(s)>> \o RemoveTabs(Tail(s))

RECURSIVE SumSeq(_)
SumSeq(s) == IF s = <<>> THEN 0 ELSE Head(s) + SumSeq(Tail(s))

-----------------------------------------------------------------------------
(* The remote endpoint: rows and page responses *)

\* A row of the "data" array. url_title is the HTML fragment, seen as whether it
\* holds an anchor and the text of the anchor's first child; category is the
\* nested object's cat_id (the JSON token) and cat_title; an empty cat_id or
\* cat_title stands for a missing or empty one.
Row(anchor, contents, cat_id, cat_title) ==
    [url_title |-> [anchor |-> anchor, contents |-> contents],
     cat_id |-> cat_id, cat_title |-> cat_title]

NameFo == <<"F", "o">>
Namefo == <<"f", "o">>

RowNoAnchor == Row(FALSE, <<>>, <<"1">>, NameFo)
RowA == Row(TRUE, <<"a">>, <<"1">>, NameFo)
RowSpaceA == Row(TRUE, <<SP, "a">>, <<"2">>, Namefo)

\* The rows the endpoint serves in a collection run.
PageRows == {RowNoAnchor, RowA, RowSpaceA}

RECURSIVE SeqsUpTo(_, _)
SeqsUpTo(S, n) ==
    IF n = 0 THEN {<<>>}
    ELSE LET shorter == SeqsUpTo(S, n - 1)
         IN  shorter \cup {Append(s, x) : s \in shorter, x \in S}

\* A parsed page response: the two total fields and the rows.
Responses ==
    [recordsTotal : 0..MaxTotal, recordsFiltered : {0, MaxTotal},
     data : SeqsUpTo(PageRows, MaxRows)]

\* What a request can end in, other than a parsed response: SSLError; another
\* RequestException (a connection error, a timeout, the HTTPError of
\* raise_for_status); the ValueError of resp.json().
SSLError == "SSLError"
TransientErrors == {"HTTPError", "ValueError"}

-----------------------------------------------------------------------------
(* Per-row processing *)

\* a = soup.find("a"); a and a.contents
HasAnchor(title_html) == title_html.anchor /\ title_html.contents # <<>>

\* str(a.contents[0]).strip()
AnchorText(title_html) == Strip(title_html.contents)

Digits == <<"0", "1", "2", "3", "4", "5", "6", "7", "8", "9">>
IsDigit(c) == \E d \in 1..Len(Digits) : Digits[d] = c
DigitValue(c) == (CHOOSE d \in 1..Len(Digits) : Digits[d] = c) - 1

RECURSIVE DecimalValue(_)
DecimalValue(s) ==
    IF s = <<>> THEN 0
    ELSE 10 * DecimalValue(SubSeq(s, 1, Len(s) - 1)) + DigitValue(s[Len(s)])

IsDecimal(s) == s # <<>> /\ \A i \in 1..Len(s) : IsDigit(s[i])

\* int(cat.get("cat_id", -1)), -1 on ValueError/TypeError
ParseCid(cat_id) ==
    IF IsDecimal(cat_id) THEN DecimalValue(cat_id)
    ELSE IF cat_id # <<>> /\ Head(cat_id) = "-" /\ IsDecimal(Tail(cat_id))
         THEN 0 - DecimalValue(Tail(cat_id))
    ELSE -1

RECURSIVE NatStr(_)
NatStr(n) ==
    IF n < 10 THEN <<Digits[n + 1]>>
    ELSE NatStr(n \div 10) \o <<Digits[(n % 10) + 1]>>

\* str(n)
IntStr(n) == IF n < 0 THEN <<"-">> \o NatStr(0 - n) ELSE NatStr(n)

\* f"category_{cid}"
DefaultName(cid) == <<"c", "a", "t", "e", "g", "o", "r", "y", "_">> \o IntStr(cid)

\* cat.get("cat_title", f"category_{cid}") or f"category_{cid}"
ParseCname(cat_title, cid) ==
    IF cat_title = <<>> THEN DefaultName(cid) ELSE cat_title

Cids(cd) == {cd[i].cid : i \in 1..Len(cd)}
Bucket(cd, cid) == CHOOSE i \in 1..Len(cd) : cd[i].cid = cid

\* the row stored as received, its title not replaced by the one without tabs
ProcessRow_RawTitle(st, dork) ==
    LET title_html == [dork.url_title EXCEPT !.contents = RemoveTabs(@)]
        text == AnchorText(title_html)
        cid == ParseCid(dork.cat_id)
        cname == ParseCname(dork.cat_title, cid)
        cd1 == IF cid \in Cids(st.cd) THEN st.cd
               ELSE Append(st.cd, [cid |-> cid, category_name |-> cname, dorks |-> <<>>])
    IN  IF ~HasAnchor(title_html) THEN st
        ELSE [extracted |-> IF text # <<>> THEN Append(st.extracted, text)
                            ELSE st.extracted,
              cd |-> [cd1 EXCEPT ![Bucket(cd1, cid)].dorks = Append(@, dork)]]

\* the row without a usable anchor filed in its category all the same
ProcessRow_KeepNoAnchor(st, dork) ==
    LET title_html == [dork.url_title EXCEPT !.contents = RemoveTabs(@)]
        text == AnchorText(title_html)
        cid == ParseCid(dork.cat_id)
        cname == ParseCname(dork.cat_title, cid)
        cd1 == IF cid \in Cids(st.cd) THEN st.cd
               ELSE Append(st.cd, [cid |-> cid, category_name |-> cname, dorks |-> <<>>])
        stored == [dork EXCEPT !.url_title = title_html]
    IN       [extracted |-> IF HasAnchor(title_html) /\ text # <<>>
                            THEN Append(st.extracted, text)
                            ELSE st.extracted,
              cd |-> [cd1 EXCEPT ![Bucket(cd1, cid)].dorks = Append(@, stored)]]

\* One iteration of the row loop on the state st = [extracted, cd].
ProcessRow(st, dork) ==
    LET title_html == [dork.url_title EXCEPT !.contents = RemoveTabs(@)]
        text == AnchorText(title_html)
        cid == ParseCid(dork.cat_id)
        cname == ParseCname(dork.cat_title, cid)
        cd1 == IF cid \in Cids(st.cd) THEN st.cd
               ELSE Append(st.cd, [cid |-> cid, category_name |-> cname, dorks |-> <<>>])
        stored == [dork EXCEPT !.url_title = title_html]
    IN  IF ~HasAnchor(title_html) THEN st
        ELSE [extracted |-> IF text # <<>> THEN Append(st.extracted, text)
                            ELSE st.extracted,
              cd |-> [cd1 EXCEPT ![Bucket(cd1, cid)].dorks = Append(@, stored)]]

RECURSIVE ProcessRows(_, _)
ProcessRows(st, rows) ==
    IF rows = <<>> THEN st
    ELSE ProcessRows(ProcessRow(st, Head(rows)), Tail(rows))

\* int(data.get("recordsTotal") or data.get("recordsFiltered") or 0)
ReportedTotal(data) ==
    IF data.recordsTotal # 0 THEN data.recordsTotal
    ELSE IF data.recordsFiltered # 0 THEN data.recordsFiltered
    ELSE 0

-----------------------------------------------------------------------------
(* Initial state: retrieve_google_dorks called with some parameters, the loop
   about to call fetch_page(0) *)

OutputKinds == {"categories", "json", "txt", "csv"}

Init ==
    /\ insecure \in BOOLEAN
    /\ retry_attempts \in 0..MaxAttempts
    /\ max_pages \in 0..MaxPagesCap
    /\ outputs \in SUBSET OutputKinds
    /\ pc = "fetch"
    /\ start = 0
    /\ pages = 0
    /\ total_dorks = None
    /\ extracted_dorks = <<>>
    /\ category_dict = <<>>
    /\ attempt = 1
    /\ last_err = "None"
    /\ wire = <<>>
    /\ offsets = <<0>>
    /\ received = <<>>
    /\ ingested = <<>>
    /\ pauses = 0
    /\ cat_i = 0
    /\ files = <<>>
    /\ error = None
    /\ result = None
    /\ exit_status = None

-----------------------------------------------------------------------------
(* fetch_page and the page loop *)

\* --backoff, as a whole number of seconds
\* --backoff, the base of the backoff: a whole number of seconds here
retry_backoff == 2

RECURSIVE Power(_, _)
Power(b, n) == IF n = 0 THEN 1 ELSE b * Power(b, n - 1)

\* What fetch_page did on the wire: a request (op "get": the attempt's first
\* request; "fallback": the request repeated with verify=False) with how it
\* ended, or a backoff sleep.
Request(op, verify, outcome) ==
    [op |-> op, start |-> start, verify |-> verify, attempt |-> attempt,
     outcome |-> outcome, secs |-> 0, total |-> None]

\* The request that ended in a parsed response, with the total it reports.
Returned(op, verify, data) ==
    [Request(op, verify, "ok") EXCEPT !.total = Some(ReportedTotal(data))]
Sleep(secs) ==
    [op |-> "sleep", start |-> start, verify |-> TRUE, attempt |-> attempt,
     outcome |-> "slept", secs |-> secs, total |-> None]

\* The exception leaves retrieve_google_dorks; __main__ prints it and exits 1.
Raise(e) ==
    /\ error' = e
    /\ pc' = "exit"
    /\ exit_status' = Some(1)

\* verify=False whatever the flag
Verify_Never == FALSE

\* verify=not insecure
Verify == ~insecure

\* range(1, retry_attempts): one iteration short
BudgetLeft_OneShort == attempt < retry_attempts

\* for attempt in range(1, retry_attempts + 1): the loop has an iteration left
BudgetLeft == attempt <= retry_attempts

\* the check of the reported total dropped
ZeroTotalStop_Never(first, total) == FALSE

\* if total_dorks == 0: break (only where total_dorks was None)
ZeroTotalStop(first, total) == first /\ total = 0

\* the check for an empty page dropped
NoRows_Never(rows) == FALSE

\* if not rows: break
NoRows(rows) == rows = <<>>

\* the offset advanced by the rows that were ingested only
Advance_IngestedOnly(rows) ==
    start + Cardinality({i \in 1..Len(rows) : rows[i].url_title.anchor})

\* start += len(rows)
Advance(rows) == start + Len(rows)

\* pages > max_pages: one page too many
CapReached_OneLate(pages1) == max_pages # 0 /\ pages1 > max_pages

\* if max_pages and pages >= max_pages: break
CapReached(pages1) == max_pages # 0 /\ pages1 >= max_pages

\* the total taken from every response, not from the first only
LoopBody_TotalEveryPage(data) ==
    LET first == total_dorks = None
        total == ReportedTotal(data)
        rows == data.data
        st == ProcessRows([extracted |-> extracted_dorks, cd |-> category_dict], rows)
        start1 == Advance(rows)
        pages1 == pages + 1
    IN  /\ total_dorks' = Some(total)
        /\ received' = Append(received, Len(rows))
        /\ attempt' = 0
        /\ last_err' = "None"
        /\ IF ZeroTotalStop(first, total) \/ NoRows(rows)
           THEN /\ pc' = "dedupe"
                /\ UNCHANGED <<start, pages, extracted_dorks, category_dict,
                              ingested>>
           ELSE /\ extracted_dorks' = st.extracted
                /\ ingested' = ingested \o rows
                /\ category_dict' = st.cd
                /\ start' = start1
                /\ pages' = pages1
                /\ pc' = IF CapReached(pages1) \/ start1 >= total
                         THEN "dedupe"
                         ELSE "pause"

\* The body of the while loop after fetch_page returned data.
LoopBody(data) ==
    LET first == total_dorks = None
        total == IF first THEN ReportedTotal(data) ELSE total_dorks[1]
        rows == data.data
        st == ProcessRows([extracted |-> extracted_dorks, cd |-> category_dict], rows)
        start1 == Advance(rows)
        pages1 == pages + 1
    IN  /\ total_dorks' = Some(total)
        /\ received' = Append(received, Len(rows))
        /\ attempt' = 0
        /\ last_err' = "None"
        /\ IF ZeroTotalStop(first, total) \/ NoRows(rows)
           THEN /\ pc' = "dedupe"
                /\ UNCHANGED <<start, pages, extracted_dorks, category_dict,
                              ingested>>
           ELSE /\ extracted_dorks' = st.extracted
                /\ ingested' = ingested \o rows
                /\ category_dict' = st.cd
                /\ start' = start1
                /\ pages' = pages1
                /\ pc' = IF CapReached(pages1) \/ start1 >= total
                         THEN "dedupe"
                         ELSE "pause"

\* the handler without "if not insecure: raise"
OnSSLError_AlwaysFallback ==
    /\ last_err' = SSLError
    /\ pc' = "fallback"
    /\ UNCHANGED <<error, exit_status>>

\* except requests.exceptions.SSLError: raise unless insecure, else fall back
OnSSLError ==
    /\ last_err' = SSLError
    /\ IF ~insecure
       THEN Raise(<<SSLError>>)
       ELSE /\ pc' = "fallback"
            /\ UNCHANGED <<error, exit_status>>

\* session.get(..., verify=not insecure), raise_for_status(), resp.json()
Get ==
    /\ pc = "fetch"
    /\ BudgetLeft
    /\ \/ \E data \in Responses :
            /\ wire' = Append(wire, Returned("get", Verify, data))
            /\ LoopBody(data)
            /\ UNCHANGED <<error, exit_status>>
       \/ /\ wire' = Append(wire, Request("get", Verify, SSLError))
          /\ OnSSLError
          /\ UNCHANGED <<catalog, attempt, received, ingested>>
       \/ \E e \in TransientErrors :
            /\ wire' = Append(wire, Request("get", Verify, e))
            /\ last_err' = e
            /\ pc' = "backoff"
            /\ UNCHANGED <<catalog, attempt, received, ingested, error, exit_status>>
    /\ UNCHANGED <<params, offsets, pauses, cat_i, files, result>>

\* a failure of the retry with verify=False raised at once instead of counted
\* as the attempt's failure
InsecureGet_FailureFatal ==
    /\ pc = "fallback"
    /\ \/ \E data \in Responses :
            /\ wire' = Append(wire, Returned("fallback", FALSE, data))
            /\ LoopBody(data)
            /\ UNCHANGED <<error, exit_status>>
       \/ \E e2 \in TransientErrors \cup {SSLError} :
            /\ wire' = Append(wire, Request("fallback", FALSE, e2))
            /\ last_err' = e2
            /\ Raise(<<e2>>)
            /\ UNCHANGED <<catalog, attempt, received, ingested>>
    /\ UNCHANGED <<params, offsets, pauses, cat_i, files, result>>

\* the retry with verify=False after an SSLError in insecure mode; any
\* Exception of it becomes last_err
InsecureGet ==
    /\ pc = "fallback"
    /\ \/ \E data \in Responses :
            /\ wire' = Append(wire, Returned("fallback", FALSE, data))
            /\ LoopBody(data)
       \/ \E e2 \in TransientErrors \cup {SSLError} :
            /\ wire' = Append(wire, Request("fallback", FALSE, e2))
            /\ last_err' = e2
            /\ pc' = "backoff"
            /\ UNCHANGED <<catalog, attempt, received, ingested>>
    /\ UNCHANGED <<params, offsets, pauses, cat_i, files, error, result, exit_status>>

\* the sleep without the step to the next attempt
Backoff_SameAttempt ==
    /\ pc = "backoff"
    /\ wire' = Append(wire, Sleep(Power(retry_backoff, attempt - 1)))
    /\ pc' = "fetch"
    /\ UNCHANGED <<params, catalog, attempt, last_err, offsets, received, ingested, pauses,
                   cat_i, files, error, result, exit_status>>

\* sleep_s = retry_backoff ** (attempt - 1); time.sleep(sleep_s); next attempt
Backoff ==
    /\ pc = "backoff"
    /\ wire' = Append(wire, Sleep(Power(retry_backoff, attempt - 1)))
    /\ attempt' = attempt + 1
    /\ pc' = "fetch"
    /\ UNCHANGED <<params, catalog, last_err, offsets, received, ingested, pauses, cat_i,
                   files, error, result, exit_status>>

\* the failure swallowed: the loop is left with what was collected
Exhausted_Swallow ==
    /\ pc = "fetch"
    /\ ~BudgetLeft
    /\ pc' = "dedupe"
    /\ UNCHANGED <<params, catalog, attempt, last_err, wire, offsets, received, ingested,
                   pauses, cat_i, files, error, result, exit_status>>

\* the for loop is over: raise RuntimeError(f"Failed to fetch page ...: {last_err}")
Exhausted ==
    /\ pc = "fetch"
    /\ ~BudgetLeft
    /\ Raise(<<"RuntimeError", last_err>>)
    /\ UNCHANGED <<params, catalog, attempt, last_err, wire, offsets, received, ingested,
                   pauses, cat_i, files, result>>

\* the pause taken after a failed attempt as well
Pause_AlsoOnRetry ==
    /\ pc \in {"pause", "backoff"}
    /\ pauses' = pauses + 1
    /\ pc' = "fetch"
    /\ attempt' = 1
    /\ wire' = <<>>
    /\ offsets' = Append(offsets, start)
    /\ UNCHANGED <<params, catalog, last_err, received, ingested, cat_i, files, error,
                   result, exit_status>>

\* time.sleep(0.4), then the next iteration calls fetch_page(start)
Pause ==
    /\ pc = "pause"
    /\ pauses' = pauses + 1
    /\ pc' = "fetch"
    /\ attempt' = 1
    /\ wire' = <<>>
    /\ offsets' = Append(offsets, start)
    /\ UNCHANGED <<params, catalog, last_err, received, ingested, cat_i, files, error,
                   result, exit_status>>

-----------------------------------------------------------------------------
(* After the loop *)

RECURSIVE _ordered_dedupe(_)

\* each string kept at its last appearance instead of its first
_ordered_dedupe_KeepLast(items) ==
    LET kept == {i \in 1..Len(items) :
                    \A j \in (i + 1)..Len(items) : items[j] # items[i]}
        nth(k) == CHOOSE i \in kept : Cardinality({j \in kept : j <= i}) = k
    IN  [k \in 1..Cardinality(kept) |-> items[nth(k)]]

\* list(OrderedDict.fromkeys(items))
_ordered_dedupe(items) ==
    IF items = <<>> THEN <<>>
    ELSE LET init == _ordered_dedupe(SubSeq(items, 1, Len(items) - 1))
             last == items[Len(items)]
         IN  IF \E i \in 1..Len(init) : init[i] = last THEN init
             ELSE Append(init, last)

Dedupe ==
    /\ pc = "dedupe"
    /\ extracted_dorks' = _ordered_dedupe(extracted_dorks)
    /\ pc' = "write_categories"
    /\ wire' = <<>>
    /\ UNCHANGED <<params, start, pages, total_dorks, category_dict, attempt,
                   last_err, offsets, received, ingested, pauses, cat_i, files, error,
                   result, exit_status>>

-----------------------------------------------------------------------------
(* Exports *)

LowerCase == <<"a", "b", "c", "d", "e", "f", "g", "h", "i", "j", "k", "l", "m",
               "n", "o", "p", "q", "r", "s", "t", "u", "v", "w", "x", "y", "z">>
UpperCase == <<"A", "B", "C", "D", "E", "F", "G", "H", "I", "J", "K", "L", "M",
               "N", "O", "P", "Q", "R", "S", "T", "U", "V", "W", "X", "Y", "Z">>

\* str.lower() on one character
Lower(c) ==
    IF \E i \in 1..Len(UpperCase) : UpperCase[i] = c
    THEN LowerCase[CHOOSE i \in 1..Len(UpperCase) : UpperCase[i] = c]
    ELSE c

\* [a-z0-9._-]
SafeChar(c) ==
    \/ \E i \in 1..Len(LowerCase) : LowerCase[i] = c
    \/ IsDigit(c)
    \/ c \in {".", "_", "-"}

\* .replace(os.sep, "_").replace("/", "_"), .lower().replace(" ", "_")
MapChar(c) == IF c \in {"/", SP} THEN "_" ELSE Lower(c)

\* re.sub(r"[^a-z0-9._-]+", "_", name): each run of other characters becomes
\* one "_". A position is kept when its character is safe or starts a run.
CollapseUnsafe(s) ==
    LET kept == {i \in 1..Len(s) : SafeChar(s[i]) \/ i = 1 \/ SafeChar(s[i - 1])}
        nth(k) == CHOOSE i \in kept : Cardinality({j \in kept : j <= i}) = k
    IN  [k \in 1..Cardinality(kept) |->
            IF SafeChar(s[nth(k)]) THEN s[nth(k)] ELSE "_"]

MaxNameLen == 120

MapChars(s) == [i \in 1..Len(s) |-> MapChar(s[i])]

\* name[:120]
Truncate(s) == SubSeq(s, 1, IF Len(s) < MaxNameLen THEN Len(s) ELSE MaxNameLen)

\* ... or "category"
OrCategory(s) == IF Len(s) = 0 THEN <<"c", "a", "t", "e", "g", "o", "r", "y">> ELSE s

\* Each stage of the body is applied to the value of the stage before it.
_safe_filename(name) ==
    CHOOSE out \in
        {OrCategory(cut) : cut \in
            {Truncate(subbed) : subbed \in
                {CollapseUnsafe(mapped) : mapped \in
                    {MapChars(stripped) : stripped \in {Strip(name)}}}}} : TRUE

\* sorted(category_dict)
RECURSIVE SortedSeq(_)
SortedSeq(S) ==
    IF S = {} THEN <<>>
    ELSE LET m == CHOOSE x \in S : \A y \in S : x <= y
         IN  <<m>> \o SortedSeq(S \ {m})

\* The lines of a category file: the anchor text of each row of the bucket.
RECURSIVE CategoryLines(_)
CategoryLines(dorks) ==
    IF dorks = <<>> THEN <<>>
    ELSE (IF HasAnchor(Head(dorks).url_title)
          THEN <<AnchorText(Head(dorks).url_title)>>
          ELSE <<>>) \o CategoryLines(Tail(dorks))

\* all_rows: the rows of every bucket, in the dict's order
RECURSIVE AllRows(_)
AllRows(cd) == IF cd = <<>> THEN <<>> ELSE Head(cd).dorks \o AllRows(Tail(cd))

\* The scan that fills dork_to_cat: (string, cid, cname) of every row with an
\* anchor, buckets in the dict's order, rows in the bucket's order.
RECURSIVE BucketScan(_, _)
BucketScan(c, dorks) ==
    IF dorks = <<>> THEN <<>>
    ELSE (IF HasAnchor(Head(dorks).url_title)
          THEN <<[s |-> AnchorText(Head(dorks).url_title), cid |-> c.cid,
                  cname |-> c.category_name]>>
          ELSE <<>>) \o BucketScan(c, Tail(dorks))

RECURSIVE CatScan(_)
CatScan(cd) ==
    IF cd = <<>> THEN <<>> ELSE BucketScan(Head(cd), Head(cd).dorks) \o CatScan(Tail(cd))

Unknown == [cid |-> -1, cname |-> <<"u", "n", "k", "n", "o", "w", "n">>]

\* dork_to_cat.get(d, (-1, "unknown")): the first entry of the scan with string d
dork_to_cat(cd, d) ==
    LET scan == CatScan(cd)
        hits == {i \in 1..Len(scan) : scan[i].s = d /\ scan[i].s # <<>>}
    IN  IF hits = {} THEN Unknown
        ELSE LET i == CHOOSE i \in hits : \A j \in hits : i <= j
             IN  [cid |-> scan[i].cid, cname |-> scan[i].cname]

CsvHeader == <<<<"dork">>, <<"category_id">>, <<"category_name">>>>

CsvLines(cd, extracted) ==
    <<CsvHeader>> \o
    [i \in 1..Len(extracted) |->
        LET c == dork_to_cat(cd, extracted[i])
        IN  <<extracted[i], IntStr(c.cid), c.cname>>]

JsonName == <<"all_google_dorks.json">>
TxtName == <<"all_google_dorks.txt">>
CsvName == <<"export.csv">>
CategoryFileName(cname) == _safe_filename(cname) \o <<".dorks">>

Put(f, path, lines) ==
    [p \in DOMAIN f \cup {path} |-> IF p = path THEN lines ELSE f[p]]

\* every output attempted on its own: a failed write is passed over and the
\* next output is written
WriteFile_ContinueOnError(path, lines, nextpc) ==
    /\ pc' = nextpc
    /\ UNCHANGED <<error, exit_status>>
    /\ \/ files' = Put(files, path, lines)
       \/ UNCHANGED files
       \/ \E k \in 0..(Len(lines) - 1) : files' = Put(files, path, SubSeq(lines, 1, k))

\* with open(path, "w") as fh: write the lines. The write completes, or open()
\* fails and the path is untouched, or a write fails after the file was
\* truncated and some of the lines were written.
WriteFile(path, lines, nextpc) ==
    \/ /\ files' = Put(files, path, lines)
       /\ pc' = nextpc
       /\ UNCHANGED <<error, exit_status>>
    \/ /\ UNCHANGED files
       /\ Raise(<<"OSError">>)
    \/ \E k \in 0..(Len(lines) - 1) :
            /\ files' = Put(files, path, SubSeq(lines, 1, k))
            /\ Raise(<<"OSError">>)

Skip(nextpc) ==
    /\ pc' = nextpc
    /\ UNCHANGED <<files, error, exit_status>>

\* if save_individual_categories_to_files: one file per cid in sorted order
WriteCategory ==
    /\ pc = "write_categories"
    /\ LET cids == SortedSeq(Cids(category_dict))
       IN  IF "categories" \in outputs /\ cat_i < Len(cids)
           THEN LET c == category_dict[Bucket(category_dict, cids[cat_i + 1])]
                IN  /\ WriteFile(CategoryFileName(c.category_name),
                                 CategoryLines(c.dorks), "write_categories")
                    /\ cat_i' = cat_i + 1
           ELSE /\ Skip("write_json")
                /\ UNCHANGED cat_i
    /\ UNCHANGED <<params, catalog, attempt, last_err, wire, offsets, received, ingested,
                   pauses, result>>

\* if save_json_response_to_file: json.dump(all_rows)
WriteJson ==
    /\ pc = "write_json"
    /\ IF "json" \in outputs
       THEN WriteFile(JsonName, AllRows(category_dict), "write_txt")
       ELSE Skip("write_txt")
    /\ UNCHANGED <<params, catalog, attempt, last_err, wire, offsets, received, ingested,
                   pauses, cat_i, result>>

\* if save_all_dorks_to_file: one line per deduplicated dork
WriteTxt ==
    /\ pc = "write_txt"
    /\ IF "txt" \in outputs
       THEN WriteFile(TxtName, extracted_dorks, "write_csv")
       ELSE Skip("write_csv")
    /\ UNCHANGED <<params, catalog, attempt, last_err, wire, offsets, received, ingested,
                   pauses, cat_i, result>>

\* if csv_export: header, then one row per deduplicated dork
WriteCsv ==
    /\ pc = "write_csv"
    /\ IF "csv" \in outputs
       THEN WriteFile(CsvName, CsvLines(category_dict, extracted_dorks), "return")
       ELSE Skip("return")
    /\ UNCHANGED <<params, catalog, attempt, last_err, wire, offsets, received, ingested,
                   pauses, cat_i, result>>

Return ==
    /\ pc = "return"
    /\ result' = Some([total_dorks |-> total_dorks[1],
                       extracted_dorks |-> extracted_dorks,
                       category_dict |-> category_dict])
    /\ pc' = "exit"
    /\ exit_status' = Some(0)
    /\ UNCHANGED <<params, catalog, attempt, last_err, wire, offsets, received, ingested,
                   pauses, cat_i, files, error>>

\* the interrupt handled as any other error: exit status 1
Interrupt_AsError ==
    /\ pc # "exit"
    /\ pc' = "exit"
    /\ error' = <<"KeyboardInterrupt">>
    /\ exit_status' = Some(1)
    /\ UNCHANGED <<params, catalog, attempt, last_err, wire, offsets, received, ingested,
                   pauses, cat_i, files, result>>

\* KeyboardInterrupt anywhere in the call: exit status 130
Interrupt ==
    /\ pc # "exit"
    /\ pc' = "exit"
    /\ error' = <<"KeyboardInterrupt">>
    /\ exit_status' = Some(130)
    /\ UNCHANGED <<params, catalog, attempt, last_err, wire, offsets, received, ingested,
                   pauses, cat_i, files, result>>

Next ==
    \/ Get
    \/ InsecureGet
    \/ Backoff
    \/ Exhausted
    \/ Pause
    \/ Dedupe
    \/ WriteCategory
    \/ WriteJson
    \/ WriteTxt
    \/ WriteCsv
    \/ Return
    \/ Interrupt

Spec == Init /\ [][Next]_vars

\* The steps of the program itself: a request returns or fails, a sleep ends,
\* a write completes or fails. The interrupt may or may not come.
Program ==
    \/ Get
    \/ InsecureGet
    \/ Backoff
    \/ Exhausted
    \/ Pause
    \/ Dedupe
    \/ WriteCategory
    \/ WriteJson
    \/ WriteTxt
    \/ WriteCsv
    \/ Return

\* The runs with no export or with every export asked for, the program's
\* steps taken whenever one is possible.
\* The loop left after one page whose rows carry the strings of items, all in
\* one category: the state in which extracted_dorks is about to be
\* deduplicated.
MaxItems == 5
DorkStrings == {<<"a">>, <<"b">>, <<"c">>}

PageOf(items) == [i \in 1..Len(items) |-> Row(TRUE, items[i], <<"1">>, NameFo)]

InitDedupe ==
    \E items \in SeqsUpTo(DorkStrings, MaxItems) :
        LET st == ProcessRows([extracted |-> <<>>, cd |-> <<>>], PageOf(items))
        IN  /\ insecure = FALSE
            /\ retry_attempts = 1
            /\ max_pages = 0
            /\ outputs \in {{}, OutputKinds}
            /\ pc = "dedupe"
            /\ start = Len(items)
            /\ pages = IF items = <<>> THEN 0 ELSE 1
            /\ total_dorks = Some(Len(items))
            /\ extracted_dorks = st.extracted
            /\ category_dict = st.cd
            /\ attempt = 0
            /\ last_err = "None"
            /\ wire = <<[op |-> "get", start |-> 0, verify |-> TRUE,
                         attempt |-> 1, outcome |-> "ok", secs |-> 0,
                         total |-> total_dorks]>>
            /\ offsets = <<0>>
            /\ received = <<Len(items)>>
            /\ ingested = PageOf(items)
            /\ pauses = 0
            /\ cat_i = 0
            /\ files = <<>>
            /\ error = None
            /\ result = None
            /\ exit_status = None

AfterLoop ==
    \/ Dedupe
    \/ WriteCategory
    \/ WriteJson
    \/ WriteTxt
    \/ WriteCsv
    \/ Return
    \/ Interrupt

SpecDedupe == InitDedupe /\ [][AfterLoop]_vars

\* The loop left after one page of rows of two categories whose names differ
\* in case only, one of the rows without an anchor.
MaxExportRows == 3
RowB == Row(TRUE, <<"b">>, <<"2">>, Namefo)
ExportRows == {RowNoAnchor, RowA, RowSpaceA, RowB}

InitExport ==
    \E rows \in SeqsUpTo(ExportRows, MaxExportRows) :
        LET st == ProcessRows([extracted |-> <<>>, cd |-> <<>>], rows)
        IN  /\ insecure = FALSE
            /\ retry_attempts = 1
            /\ max_pages = 0
            /\ outputs \in SUBSET OutputKinds
            /\ pc = "dedupe"
            /\ start = Len(rows)
            /\ pages = IF rows = <<>> THEN 0 ELSE 1
            /\ total_dorks = Some(Len(rows))
            /\ extracted_dorks = st.extracted
            /\ category_dict = st.cd
            /\ attempt = 0
            /\ last_err = "None"
            /\ wire = <<[op |-> "get", start |-> 0, verify |-> TRUE,
                         attempt |-> 1, outcome |-> "ok", secs |-> 0,
                         total |-> total_dorks]>>
            /\ offsets = <<0>>
            /\ received = <<Len(rows)>>
            /\ ingested = rows
            /\ pauses = 0
            /\ cat_i = 0
            /\ files = <<>>
            /\ error = None
            /\ result = None
            /\ exit_status = None

SpecExport == InitExport /\ [][AfterLoop]_vars

\* The same, in an output directory that holds the text file and a category
\* file of an earlier run (os.makedirs(outdir, exist_ok=True) keeps them).
EarlierLines == << <<"a">>, <<"b">> >>
EarlierRun == [p \in {TxtName, CategoryFileName(NameFo)} |-> EarlierLines]

InitRerun ==
    \E rows \in SeqsUpTo(ExportRows, MaxExportRows) :
        LET st == ProcessRows([extracted |-> <<>>, cd |-> <<>>], rows)
        IN  /\ insecure = FALSE
            /\ retry_attempts = 1
            /\ max_pages = 0
            /\ outputs \in SUBSET OutputKinds
            /\ pc = "dedupe"
            /\ start = Len(rows)
            /\ pages = IF rows = <<>> THEN 0 ELSE 1
            /\ total_dorks = Some(Len(rows))
            /\ extracted_dorks = st.extracted
            /\ category_dict = st.cd
            /\ attempt = 0
            /\ last_err = "None"
            /\ wire = <<[op |-> "get", start |-> 0, verify |-> TRUE,
                         attempt |-> 1, outcome |-> "ok", secs |-> 0,
                         total |-> total_dorks]>>
            /\ offsets = <<0>>
            /\ received = <<Len(rows)>>
            /\ ingested = rows
            /\ pauses = 0
            /\ cat_i = 0
            /\ files = EarlierRun
            /\ error = None
            /\ result = None
            /\ exit_status = None

SpecRerun == InitRerun /\ [][AfterLoop]_vars

\* The loop left after one page of rows that include an anchor with blank
\* text and no category, and a title with a tab, a cat_id that is no number
\* and a blank cat_title.
MaxCsvRows == 3
RowBlank == Row(TRUE, <<SP>>, <<>>, <<>>)
RowTabbed == Row(TRUE, <<"a", TAB, "b">>, <<"x">>, <<SP>>)
CsvRows == {RowNoAnchor, RowA, RowSpaceA, RowB, RowBlank, RowTabbed}

InitCsv ==
    \E rows \in SeqsUpTo(CsvRows, MaxCsvRows) :
        LET st == ProcessRows([extracted |-> <<>>, cd |-> <<>>], rows)
        IN  /\ insecure = FALSE
            /\ retry_attempts = 1
            /\ max_pages = 0
            /\ outputs \in {{}, {"csv"}, {"txt", "csv"}, OutputKinds}
            /\ pc = "dedupe"
            /\ start = Len(rows)
            /\ pages = IF rows = <<>> THEN 0 ELSE 1
            /\ total_dorks = Some(Len(rows))
            /\ extracted_dorks = st.extracted
            /\ category_dict = st.cd
            /\ attempt = 0
            /\ last_err = "None"
            /\ wire = <<[op |-> "get", start |-> 0, verify |-> TRUE,
                         attempt |-> 1, outcome |-> "ok", secs |-> 0,
                         total |-> total_dorks]>>
            /\ offsets = <<0>>
            /\ received = <<Len(rows)>>
            /\ ingested = rows
            /\ pauses = 0
            /\ cat_i = 0
            /\ files = <<>>
            /\ error = None
            /\ result = None
            /\ exit_status = None

SpecCsv == InitCsv /\ [][AfterLoop]_vars

FairInit == Init /\ outputs \in {{}, OutputKinds}

FairSpec == FairInit /\ [][Next]_vars /\ WF_vars(Program)

-----------------------------------------------------------------------------
(* Properties of fetch_page *)

Requests(w) == {i \in 1..Len(w) : w[i].op # "sleep"}
TlsFailures(w) == {i \in Requests(w) : w[i].outcome = SSLError}
TransientFailures(w) == {i \in Requests(w) : w[i].outcome \in TransientErrors}

\* C1: with insecure mode off, a request that ends in a TLS verification
\* failure is the last thing fetch_page does: the run is over with that
\* SSLError as its error, no request and no backoff sleep follows it, and the
\* attempts left in the budget stay unused.
C1_TlsFailureFatal ==
    /\ [](\A i \in TlsFailures(wire) :
            ~insecure =>
                /\ i = Len(wire)
                /\ pc = "exit"
                /\ error = <<SSLError>>
                /\ exit_status = Some(1)
                /\ attempt = wire[i].attempt
                /\ result = None)
    /\ [][(~insecure /\ TlsFailures(wire) # {}) => UNCHANGED vars]_vars

\* a TLS failure on the first attempt of a page, with an attempt left
C1_Witness ==
    /\ ~insecure
    /\ TlsFailures(wire) # {}
    /\ error = <<SSLError>>
    /\ attempt = 1
    /\ retry_attempts = MaxAttempts

\* C2: a request with TLS verification off is issued only in a run whose
\* caller set insecure; with insecure off every request is verified.
C2_NoSilentDowngrade ==
    \A i \in Requests(wire) : ~wire[i].verify => insecure

\* a run without insecure whose second page met a transient failure and then a
\* TLS failure
C2_Witness ==
    /\ ~insecure
    /\ Len(offsets) = 2
    /\ TransientFailures(wire) # {}
    /\ TlsFailures(wire) # {}

\* C3: when only non-TLS transient errors occur in a fetch_page call with
\* budget N >= 1: a call that returns did so on request k+1 after k < N failed
\* requests, and the loop goes on (to the pause or to the end of the loop);
\* a call that fails did N requests, all failed, and its RuntimeError carries
\* the error of the last one.
C3_RetryBudget ==
    (retry_attempts >= 1 /\ TlsFailures(wire) = {}) =>
        LET k == Cardinality(TransientFailures(wire))
        IN  /\ pc \in {"pause", "dedupe"} =>
                /\ k < retry_attempts
                /\ Cardinality(Requests(wire)) = k + 1
                /\ wire[Len(wire)].outcome = "ok"
                /\ error = None
                /\ Len(received) = Len(offsets)
            /\ (Len(error) = 2 /\ error[1] = "RuntimeError") =>
                /\ k = retry_attempts
                /\ Cardinality(Requests(wire)) = retry_attempts
                /\ \E i \in Requests(wire) :
                      /\ \A j \in Requests(wire) : j <= i
                      /\ error[2] = wire[i].outcome
                /\ result = None

\* every attempt but the last of the budget failed, the last one succeeded
C3_Witness ==
    /\ pc = "pause"
    /\ retry_attempts = MaxAttempts
    /\ TlsFailures(wire) = {}
    /\ Cardinality(TransientFailures(wire)) = MaxAttempts - 1
    /\ Cardinality(Requests(wire)) = MaxAttempts

-----------------------------------------------------------------------------
(* Properties of the page loop *)

LoopPcs == {"fetch", "fallback", "backoff", "pause"}

\* a request of the call's last attempt failed for good
LastAttemptFailed ==
    \E i \in Requests(wire) :
        /\ wire[i].attempt = retry_attempts
        /\ \/ wire[i].outcome \in TransientErrors
           \/ wire[i].op = "fallback" /\ wire[i].outcome # "ok"

TlsRefused == ~insecure /\ TlsFailures(wire) # {}

\* a fetch failure left retrieve_google_dorks
FetchErrorRaised ==
    \/ error = <<SSLError>>
    \/ Len(error) = 2 /\ error[1] = "RuntimeError"

\* C4: once the fetch of a page has failed (its last attempt failed, or TLS
\* verification failed with insecure off), nothing but the trailing backoff
\* and the raise happens: no next page is requested, nothing is returned, no
\* file is written, and the run ends with exit status 1, whatever was ingested.
C4_FailurePropagates ==
    /\ []((LastAttemptFailed \/ TlsRefused) =>
            /\ pc \in {"backoff", "fetch", "exit"}
            /\ pc = "fetch" => ~BudgetLeft
            /\ result = None
            /\ DOMAIN files = {}
            /\ cat_i = 0
            /\ exit_status # Some(0)
            /\ Len(offsets) = Len(received) + 1)
    /\ [](FetchErrorRaised =>
            /\ pc = "exit"
            /\ exit_status = Some(1)
            /\ result = None
            /\ DOMAIN files = {})
    /\ [][FetchErrorRaised => UNCHANGED vars]_vars

\* retries exhausted on a later page, with rows ingested and every export asked for
C4_Witness ==
    /\ Len(error) = 2
    /\ error[1] = "RuntimeError"
    /\ LastAttemptFailed
    /\ pages >= 1
    /\ category_dict # <<>>
    /\ outputs = OutputKinds

EmptyCatalog == [total_dorks |-> 0, extracted_dorks |-> <<>>, category_dict |-> <<>>]

\* C5: when the first response reports a total of 0, that call of fetch_page
\* is the only one of the run, nothing is ingested, and what is returned is
\* the empty catalog, also when the response carried rows.
C5_ZeroTotal ==
    total_dorks = Some(0) =>
        /\ offsets = <<0>>
        /\ Len(received) = 1
        /\ pc \notin LoopPcs
        /\ start = 0 /\ pages = 0
        /\ extracted_dorks = <<>>
        /\ category_dict = <<>>
        /\ result # None => result = Some(EmptyCatalog)

\* total 0 in a response with rows, and the run returned
C5_Witness ==
    /\ total_dorks = Some(0)
    /\ received = <<MaxRows>>
    /\ exit_status = Some(0)
    /\ result = Some(EmptyCatalog)

LastReceived == received[Len(received)]

\* C6: a response with zero rows ends the loop: no other page is requested
\* after it, and the step that receives it leaves the offset, the page count,
\* the running list and the buckets as the earlier pages left them; after one
\* page of n rows and an empty second page exactly the n rows were scanned.
C6_EmptyPageStops ==
    /\ []((received # <<>> /\ LastReceived = 0) =>
            /\ pc \notin LoopPcs
            /\ Len(offsets) = Len(received)
            /\ pages = Len(received) - 1
            /\ total_dorks # Some(0) => start = SumSeq(received)
            /\ Len(received) = 2 =>
                 /\ start = received[1]
                 /\ Len(AllRows(category_dict)) <= received[1])
    /\ [][(Len(received') = Len(received) + 1 /\ received'[Len(received')] = 0) =>
            /\ pc' = "dedupe"
            /\ UNCHANGED <<start, pages, extracted_dorks, category_dict>>]_vars

\* one row of a reported MaxTotal on page 1, no row on page 2, and the run returned
C6_Witness ==
    /\ received = <<1, 0>>
    /\ total_dorks = Some(MaxTotal)
    /\ offsets = <<0, 1>>
    /\ Len(extracted_dorks) = 1
    /\ exit_status = Some(0)

\* C7: the first call of fetch_page is at offset 0, call i is at the sum of
\* the row counts of the i-1 responses before it (skipped rows count), the
\* offsets never decrease, and every request of a call carries the call's offset.
C7_Offsets ==
    /\ offsets[1] = 0
    /\ \A i \in 1..Len(offsets) :
          /\ Len(received) >= i - 1
          /\ offsets[i] = SumSeq(SubSeq(received, 1, i - 1))
    /\ \A i \in 1..(Len(offsets) - 1) : offsets[i] <= offsets[i + 1]
    /\ \A i \in Requests(wire) : wire[i].start = offsets[Len(offsets)]
    /\ pc \in LoopPcs \ {"pause"} => start = offsets[Len(offsets)]

\* a third page requested twice at offset 2 after two pages whose rows were skipped
C7_Witness ==
    /\ offsets = <<0, 1, 2>>
    /\ category_dict = <<>>
    /\ Cardinality(Requests(wire)) = 2
    /\ \A i \in Requests(wire) : wire[i].start = 2

NoDuplicates(seq) == \A i, j \in 1..Len(seq) : seq[i] = seq[j] => i = j

\* every export asked for is on disk
ExportsDone ==
    /\ "categories" \in outputs =>
          \A i \in 1..Len(category_dict) :
              CategoryFileName(category_dict[i].category_name) \in DOMAIN files
    /\ "json" \in outputs =>
          JsonName \in DOMAIN files /\ files[JsonName] = AllRows(category_dict)
    /\ "txt" \in outputs =>
          TxtName \in DOMAIN files /\ files[TxtName] = extracted_dorks
    /\ "csv" \in outputs =>
          CsvName \in DOMAIN files /\ Len(files[CsvName]) = 1 + Len(extracted_dorks)

\* C8: with max_pages >= 1 no more than max_pages pages are requested or
\* ingested and the loop is over once max_pages pages are ingested; a run that
\* stopped there below the reported total carries no fetch error, and when it
\* ends with status 0 the list is deduplicated, the exports asked for are
\* written and the catalog is returned.
C8_PageCap ==
    max_pages >= 1 =>
        /\ pages <= max_pages
        /\ Len(offsets) <= max_pages
        /\ pages = max_pages => pc \notin LoopPcs
        /\ (pages = max_pages /\ start < total_dorks[1]) =>
              /\ ~FetchErrorRaised
              /\ pc = "return" => ExportsDone
              /\ exit_status = Some(0) =>
                    /\ NoDuplicates(extracted_dorks)
                    /\ ExportsDone
                    /\ result = Some([total_dorks |-> total_dorks[1],
                                      extracted_dorks |-> extracted_dorks,
                                      category_dict |-> category_dict])

\* the cap of 1 reached below the reported total, a duplicate collected, every
\* export asked for, and the run returned
C8_Witness ==
    /\ max_pages = 1
    /\ pages = 1
    /\ received = <<MaxRows>>
    /\ start < total_dorks[1]
    /\ Len(extracted_dorks) = 1
    /\ Len(AllRows(category_dict)) = MaxRows
    /\ outputs = OutputKinds
    /\ exit_status = Some(0)

-----------------------------------------------------------------------------
(* Termination *)

\* steps left after the loop
TailRank ==
    CASE pc = "exit" -> 0
      [] pc = "return" -> 1
      [] pc = "write_csv" -> 2
      [] pc = "write_txt" -> 3
      [] pc = "write_json" -> 4
      [] pc = "write_categories" -> 5 + (Len(category_dict) - cat_i)
      [] pc = "dedupe" -> 6 + Len(category_dict)
      [] OTHER -> 0

\* the categories the served rows can open
MaxCategories == Cardinality({ParseCid(r.cat_id) : r \in PageRows})

\* steps one call of fetch_page and the pause before it can take
CallBudget == 3 * retry_attempts + 2

\* steps left in the current call of fetch_page
CallRank ==
    CASE pc = "pause" -> CallBudget
      [] pc = "fetch" -> 3 * (retry_attempts + 1 - attempt) + 1
      [] pc = "fallback" -> 3 * (retry_attempts + 1 - attempt)
      [] pc = "backoff" -> 3 * (retry_attempts + 1 - attempt) - 1
      [] OTHER -> 0

\* non-empty pages that can still come: rows short of the reported total
PagesLeft ==
    IF total_dorks = None THEN MaxTotal + 1
    ELSE IF start < total_dorks[1] THEN total_dorks[1] - start
    ELSE 0

\* a bound on the steps the run can still take
Rank ==
    IF pc \in LoopPcs
    THEN 7 + MaxCategories + PagesLeft * CallBudget + CallRank
    ELSE TailRank

\* C9: every run ends. Each step of the run lowers a natural-number bound on
\* the steps left (the attempts left in the call, the rows short of the
\* reported total, the exports left), the program can take a step wherever it
\* has not exited, and so, requests returning or failing, it exits.
C9_Terminates ==
    /\ [](Rank \in Nat)
    /\ [][Rank' < Rank]_vars
    /\ [](pc # "exit" => ENABLED Program)
    /\ <>(pc = "exit")

\* the loop left after three pages, with a retry on the way
C9_Witness ==
    /\ Len(offsets) = 3
    /\ Len(received) = 3
    /\ pc = "dedupe"
    /\ Cardinality(Requests(wire)) >= 2

------------------------------------------------------------------------------
(* Deduplication *)

FirstIndex(items, x) == CHOOSE k \in 1..Len(items) :
    items[k] = x /\ \A m \in 1..(k - 1) : items[m] # x

\* out holds each distinct string of items exactly once, in the order in
\* which the strings first appear in items
FirstAppearances(items, out) ==
    /\ \A i, j \in 1..Len(out) : i # j => out[i] # out[j]
    /\ {out[i] : i \in 1..Len(out)} = {items[k] : k \in 1..Len(items)}
    /\ \A i, j \in 1..Len(out) :
          i < j => FirstIndex(items, out[i]) < FirstIndex(items, out[j])

\* The strings of the row scan, read back from the rows stored in the buckets
\* (one bucket at most here, so the bucket's order is the scan's order).
Scanned == IF category_dict = <<>> THEN <<>> ELSE CategoryLines(AllRows(category_dict))

Deduplicated == pc \in {"write_categories", "write_json", "write_txt", "write_csv", "return"}

\* C10: the deduplicated list contains each distinct extracted string exactly
\* once, in order of first appearance in the row scan; later repeats are
\* dropped and no string is added or reordered. The step that deduplicates
\* turns extracted_dorks into its list of first appearances, and from then on
\* extracted_dorks, and the list returned, is the list of first appearances of
\* the scanned strings.
C10_OrderedDedupe ==
    /\ [][(pc = "dedupe" /\ pc' = "write_categories")
            => FirstAppearances(extracted_dorks, extracted_dorks')]_vars
    /\ [](Deduplicated => FirstAppearances(Scanned, extracted_dorks))
    /\ [](result # None => FirstAppearances(Scanned, result[1].extracted_dorks))

\* The scan was a, b, a, c, b and the deduplicated list is a, b, c.
C10_Witness ==
    /\ pc = "write_categories"
    /\ Scanned = << <<"a">>, <<"b">>, <<"a">>, <<"c">>, <<"b">> >>
    /\ extracted_dorks = << <<"a">>, <<"b">>, <<"c">> >>


-----------------------------------------------------------------------------
(* Exports *)

\* The rows of the scan that have an anchor, as (string, cid).
RECURSIVE ScanEntries(_)
ScanEntries(rows) ==
    IF rows = <<>> THEN <<>>
    ELSE (IF HasAnchor(Head(rows).url_title)
          THEN <<[s |-> AnchorText([Head(rows).url_title EXCEPT
                                        !.contents = RemoveTabs(@)]),
                  cid |-> ParseCid(Head(rows).cat_id)]>>
          ELSE <<>>) \o ScanEntries(Tail(rows))

\* the cid of the earliest row of the scan whose string is d
EarliestCid(d) ==
    LET es == ScanEntries(ingested)
        k == CHOOSE k \in 1..Len(es) :
                es[k].s = d /\ \A m \in 1..(k - 1) : es[m].s # d
    IN  es[k].cid

CsvWritten == pc = "return" /\ "csv" \in outputs

\* C11: in the CSV a string is attributed to the category of the earliest row
\* of the row scan that holds it, whatever the order in which the categories
\* were first seen.
C11_CsvEarliestRow ==
    CsvWritten =>
        \A i \in 2..Len(files[CsvName]) :
            files[CsvName][i][2] = IntStr(EarliestCid(files[CsvName][i][1]))


CategoriesWritten ==
    /\ "categories" \in outputs
    /\ \/ pc \in {"write_json", "write_txt", "write_csv", "return"}
       \/ exit_status = Some(0)

\* C12: after the per-category export every category of the catalog has a
\* file of its own that holds exactly the lines of that category's rows: no
\* two category ids share a file.
C12_OneFilePerCategory ==
    CategoriesWritten =>
        /\ \A i \in 1..Len(category_dict) :
              LET path == CategoryFileName(category_dict[i].category_name)
              IN  /\ path \in DOMAIN files
                  /\ files[path] = CategoryLines(category_dict[i].dorks)
        /\ \A i, j \in 1..Len(category_dict) :
              i # j => CategoryFileName(category_dict[i].category_name)
                           # CategoryFileName(category_dict[j].category_name)


OSError == <<"OSError">>

\* Each output in full: every category has its file, which holds all the
\* lines of a category of that file name; the other files hold all their lines.
CategoriesFull ==
    \A i \in 1..Len(category_dict) :
        LET path == CategoryFileName(category_dict[i].category_name)
        IN  /\ path \in DOMAIN files
            /\ \E j \in 1..Len(category_dict) :
                  /\ CategoryFileName(category_dict[j].category_name) = path
                  /\ files[path] = CategoryLines(category_dict[j].dorks)
JsonFull == JsonName \in DOMAIN files /\ files[JsonName] = AllRows(category_dict)
TxtFull == TxtName \in DOMAIN files /\ files[TxtName] = extracted_dorks
CsvFull ==
    CsvName \in DOMAIN files /\ files[CsvName] = CsvLines(category_dict, extracted_dorks)

\* the outputs asked for up to and including the one of that kind are in full
FullUpTo(kind) ==
    /\ "categories" \in outputs => CategoriesFull
    /\ ("json" \in outputs /\ kind \in {"json", "txt", "csv"}) => JsonFull
    /\ ("txt" \in outputs /\ kind \in {"txt", "csv"}) => TxtFull
    /\ ("csv" \in outputs /\ kind = "csv") => CsvFull

\* C13: the outputs are written in the order category files, JSON, text,
\* CSV: a file of a later output exists only when the earlier outputs asked
\* for are on disk in full. The step on which a write fails ends the run
\* with exit status 1 and nothing returned, leaves the outputs completed
\* before it in full, and no file of a later output exists then or later.
C13_OutputOrder ==
    /\ [](/\ JsonName \in DOMAIN files => FullUpTo("categories")
          /\ TxtName \in DOMAIN files => FullUpTo("json")
          /\ CsvName \in DOMAIN files => FullUpTo("txt")
          /\ exit_status = Some(0) => FullUpTo("csv"))
    /\ [](error = OSError =>
            /\ pc = "exit" /\ exit_status = Some(1) /\ result = None
            /\ "csv" \in outputs => ~CsvFull)
    /\ [][(error = None /\ error' = OSError) =>
            /\ pc = "write_categories" =>
                  {JsonName, TxtName, CsvName} \cap DOMAIN files' = {}
            /\ pc = "write_json" =>
                  /\ "categories" \in outputs => CategoriesFull'
                  /\ {TxtName, CsvName} \cap DOMAIN files' = {}
            /\ pc = "write_txt" =>
                  /\ "categories" \in outputs => CategoriesFull'
                  /\ "json" \in outputs => JsonFull'
                  /\ CsvName \notin DOMAIN files'
            /\ pc = "write_csv" =>
                  /\ "categories" \in outputs => CategoriesFull'
                  /\ "json" \in outputs => JsonFull'
                  /\ "txt" \in outputs => TxtFull']_vars

\* All four outputs asked for; the categories were written in full, the
\* write of the JSON failed part-way, the text and the CSV were not written.
C13_Witness ==
    /\ outputs = OutputKinds
    /\ error = OSError
    /\ exit_status = Some(1)
    /\ Len(category_dict) = 2
    /\ CategoriesFull
    /\ JsonName \in DOMAIN files /\ Len(files[JsonName]) = 1
    /\ {TxtName, CsvName} \cap DOMAIN files = {}
    /\ Len(extracted_dorks) = 2


\* C14: a write is atomic with respect to failure: the step on which a write
\* fails leaves every path that held a file with the content it had, never
\* with a truncated or half-written replacement.
C14_AtomicWrites ==
    [][(error = None /\ error' = OSError) =>
          \A p \in DOMAIN files : p \in DOMAIN files' /\ files'[p] = files[p]]_vars


-----------------------------------------------------------------------------
(* Exit status *)

KeyboardInterrupt == <<"KeyboardInterrupt">>

\* C15: the exit status is 0 exactly when retrieve_google_dorks returned, 130
\* exactly when the run was interrupted, 1 exactly when another error left it
\* (a failed fetch, a refused TLS failure, a failed write); a run that is
\* over has one of the three. The interrupt gets 130 wherever it arrives: in
\* a fetch, a backoff wait, the politeness pause or an export.
C15_ExitStatus ==
    /\ [](/\ exit_status \in {None, Some(0), Some(1), Some(130)}
          /\ pc = "exit" <=> exit_status # None
          /\ exit_status = Some(0) <=> result # None
          /\ exit_status = Some(130) <=> error = KeyboardInterrupt
          /\ exit_status = Some(1) <=> error \notin {None, KeyboardInterrupt}
          /\ result # None => error = None
          /\ FetchErrorRaised => exit_status = Some(1)
          /\ error = OSError => exit_status = Some(1))
    /\ [][(error = None /\ error' = KeyboardInterrupt) =>
            /\ pc \in {"fetch", "fallback", "backoff", "pause", "dedupe",
                       "write_categories", "write_json", "write_txt",
                       "write_csv", "return"}
            /\ exit_status' = Some(130)]_vars
    /\ [](pc # "exit" => ENABLED Interrupt)

\* interrupted in the backoff wait after a failed attempt
C15_Witness ==
    /\ exit_status = Some(130)
    /\ wire # <<>>
    /\ wire[Len(wire)].outcome \in TransientErrors
    /\ attempt <= retry_attempts


-----------------------------------------------------------------------------
(* Backoff and fallback *)

FailedRequest(e) == e.op # "sleep" /\ e.outcome # "ok"

\* C16: every backoff wait of a fetch_page call follows the failed attempt k
\* it belongs to, lasts retry_backoff^(k-1), and lies strictly between two
\* attempts: attempt k + 1 is still to come.
C16_BackoffBetweenAttempts ==
    \A i \in 1..Len(wire) :
        wire[i].op = "sleep" =>
            /\ i > 1
            /\ FailedRequest(wire[i - 1])
            /\ wire[i - 1].attempt = wire[i].attempt
            /\ wire[i].secs = Power(retry_backoff, wire[i].attempt - 1)
            /\ wire[i].attempt < retry_attempts


\* C17: with insecure set, a request of an attempt that ends in a TLS failure
\* is followed at once, before any wait, by one request with verify off for
\* the same attempt and offset, and a fallback request occurs nowhere else.
\* A fallback that succeeds ends the call with its response; one that fails
\* is followed by the attempt's backoff wait and the next attempt, if any, is
\* a first request again. A call issues at most two requests per attempt, so
\* at most 2 * retry_attempts.
C17_InsecureFallback ==
    insecure =>
        /\ \A i \in 1..Len(wire) :
              /\ (wire[i].op = "get" /\ wire[i].outcome = SSLError) =>
                    IF i < Len(wire)
                    THEN /\ wire[i + 1].op = "fallback"
                         /\ ~wire[i + 1].verify
                         /\ wire[i + 1].attempt = wire[i].attempt
                         /\ wire[i + 1].start = wire[i].start
                    ELSE pc \in {"fallback", "exit"}
              /\ wire[i].op = "fallback" =>
                    /\ i > 1
                    /\ wire[i - 1].op = "get" /\ wire[i - 1].outcome = SSLError
              /\ (wire[i].op = "fallback" /\ wire[i].outcome = "ok") =>
                    /\ i = Len(wire)
                    /\ pc \in {"pause", "dedupe", "exit"}
                    /\ Len(received) = Len(offsets)
                    /\ ~FetchErrorRaised
              /\ (wire[i].op = "fallback" /\ wire[i].outcome # "ok") =>
                    IF i < Len(wire)
                    THEN /\ wire[i + 1].op = "sleep"
                         /\ wire[i + 1].attempt = wire[i].attempt
                         /\ i + 1 < Len(wire) =>
                               /\ wire[i + 2].op = "get"
                               /\ wire[i + 2].attempt = wire[i].attempt + 1
                    ELSE pc \in {"backoff", "exit"} /\ ~FetchErrorRaised
        /\ \A k \in 1..retry_attempts :
              Cardinality({i \in Requests(wire) : wire[i].attempt = k}) <= 2
        /\ Cardinality(Requests(wire)) <= 2 * retry_attempts

\* a call of two attempts: the first met a TLS failure and a failed fallback,
\* the second a TLS failure and a fallback that returned the page
C17_Witness ==
    /\ insecure
    /\ retry_attempts = 2
    /\ Len(wire) = 5
    /\ wire[2].op = "fallback" /\ wire[2].outcome = SSLError
    /\ wire[3].op = "sleep"
    /\ wire[4].outcome = SSLError
    /\ wire[5].op = "fallback" /\ wire[5].outcome = "ok"
    /\ Cardinality(Requests(wire)) = 2 * retry_attempts


-----------------------------------------------------------------------------
(* The reported total *)

\* C18: total_dorks is unset until the first response is received, is set by
\* the step that receives it, at offset 0, to the total that response
\* reports, and no later step changes it: not a later page, whatever total it
\* reports, nor the row loop, the dedupe or an export. The total returned is
\* that one.
C18_TotalSetOnce ==
    /\ [](total_dorks = None <=> received = <<>>)
    /\ [][(total_dorks = None /\ total_dorks' # None) =>
            /\ offsets = <<0>>
            /\ wire' # <<>>
            /\ wire'[Len(wire')].outcome = "ok"
            /\ total_dorks' = wire'[Len(wire')].total]_vars
    /\ [][total_dorks # None => total_dorks' = total_dorks]_vars
    /\ [](result # None => result[1].total_dorks = total_dorks[1])

\* the second response reported another total than the first, and the rows
\* extracted are fewer than the total
C18_Witness ==
    /\ pc = "dedupe"
    /\ Len(received) = 2
    /\ wire # <<>>
    /\ wire[Len(wire)].outcome = "ok"
    /\ wire[Len(wire)].total # total_dorks
    /\ wire[Len(wire)].total # Some(0)
    /\ Len(extracted_dorks) < total_dorks[1]
    /\ start >= total_dorks[1]


-----------------------------------------------------------------------------
(* The list and the buckets *)

AnchorRows(rows) == {i \in 1..Len(rows) : HasAnchor(rows[i].url_title)}

\* C19: the strings of the list are the texts of rows held in the buckets;
\* the buckets hold rows with an anchor only, as many as the scan went
\* through, and the list holds the non-empty texts of those rows and nothing
\* else, so a row without an anchor is in neither; once deduplicated, the
\* list repeats no string.
C19_ListWithinBuckets ==
    LET stored == AllRows(category_dict)
        scanned == ScanEntries(ingested)
    IN  /\ \A i \in 1..Len(extracted_dorks) :
              \E k \in 1..Len(stored) :
                  /\ HasAnchor(stored[k].url_title)
                  /\ AnchorText(stored[k].url_title) = extracted_dorks[i]
        /\ AnchorRows(stored) = 1..Len(stored)
        /\ Len(stored) = Cardinality(AnchorRows(ingested))
        /\ {extracted_dorks[i] : i \in 1..Len(extracted_dorks)}
              = {scanned[k].s : k \in 1..Len(scanned)} \ {<<>>}
        /\ (Deduplicated \/ result # None) => NoDuplicates(extracted_dorks)

\* two pages with a row without an anchor and the same string twice, in two
\* categories; the list was deduplicated
C19_Witness ==
    /\ Len(received) = 2
    /\ AnchorRows(ingested) # 1..Len(ingested)
    /\ Len(AllRows(category_dict)) = 2
    /\ Len(category_dict) = 2
    /\ Len(extracted_dorks) = 1
    /\ pc = "write_categories"


-----------------------------------------------------------------------------
(* The politeness pause *)

\* C20: one pause lies between every two consecutive calls of fetch_page.
\* The pause is taken only when the latest request returned a page with
\* rows that was ingested, the cap is not reached and the offset is below the
\* total, and the next call follows it at that offset; it is never taken
\* while a call is retrying. After the last page there is none: a run whose
\* loop ended without a fetch error has paused once less than it received
\* responses.
C20_PolitenessPause ==
    /\ [](pauses = Len(offsets) - 1)
    /\ [][pauses' # pauses =>
            /\ pauses' = pauses + 1
            /\ wire # <<>> /\ wire[Len(wire)].outcome = "ok"
            /\ Len(received) = Len(offsets)
            /\ LastReceived > 0
            /\ pages = Len(received)
            /\ start = SumSeq(received)
            /\ start < total_dorks[1]
            /\ ~(max_pages # 0 /\ pages >= max_pages)
            /\ offsets' = Append(offsets, start)
            /\ pc' = "fetch" /\ attempt' = 1]_vars
    /\ [][(wire # <<>> /\ wire[Len(wire)].outcome # "ok") => pauses' = pauses]_vars
    /\ []((pc \in {"dedupe", "write_categories", "write_json", "write_txt",
                   "write_csv", "return"} \/ result # None) =>
              pauses = Len(received) - 1)
    /\ [](FetchErrorRaised => pauses = Len(received))

\* a run of three pages with a failed attempt on the way: two pauses
C20_Witness ==
    /\ pauses = 2
    /\ Len(received) = 3
    /\ pc = "dedupe"
    /\ Len(wire) > 1


-----------------------------------------------------------------------------
(* The rows of the CSV *)

\* the bucket of that cid and name holds a row whose text is d
BucketHolds(cid_cell, cname, d) ==
    \E k \in 1..Len(category_dict) :
        /\ IntStr(category_dict[k].cid) = cid_cell
        /\ category_dict[k].category_name = cname
        /\ \E r \in 1..Len(category_dict[k].dorks) :
              /\ HasAnchor(category_dict[k].dorks[r].url_title)
              /\ AnchorText(category_dict[k].dorks[r].url_title) = d

\* C21: the CSV holds the header and then one row per string of the
\* deduplicated list, in the list's order, which is the order of the lines of
\* the text file; the category of every row is one whose bucket holds a row
\* with that string, so the default (-1, "unknown") is never written.
C21_CsvRows ==
    CsvWritten =>
        LET csv == files[CsvName]
        IN  /\ Len(csv) = 1 + Len(extracted_dorks)
            /\ csv[1] = CsvHeader
            /\ NoDuplicates(extracted_dorks)
            /\ "txt" \in outputs => Len(files[TxtName]) = Len(extracted_dorks)
            /\ \A i \in 1..Len(extracted_dorks) :
                  /\ csv[i + 1][1] = extracted_dorks[i]
                  /\ "txt" \in outputs => files[TxtName][i] = csv[i + 1][1]
                  /\ BucketHolds(csv[i + 1][2], csv[i + 1][3], csv[i + 1][1])
                  /\ <<csv[i + 1][2], csv[i + 1][3]>> # <<IntStr(Unknown.cid), Unknown.cname>>

\* the CSV of a catalog with the sentinel category: a row whose title held a
\* tab, a row with blank text and a row of a numbered category
C21_Witness ==
    /\ CsvWritten
    /\ "txt" \in outputs
    /\ ingested = <<RowTabbed, RowBlank, RowB>>
    /\ Len(files[CsvName]) = 3
    /\ files[CsvName][2] = << <<"a", "b">>, IntStr(-1), <<SP>> >>

====
